---------------------------- MODULE Spec2Model ----------------------------
(***************************************************************************)
(* Music recommender pipeline: 01_load_mongodb (Batch Loader),             *)
(* 02_load_neo4j (Graph Builder) and 04_cross_data (Hybrid Recommender).   *)
(*                                                                         *)
(* Text is a sequence of one-character strings, so that str.strip() and    *)
(* str.split(',') are computed character by character.  A value held in a  *)
(* CSV cell or a document field is a record [k, s]: k = "none" (Python     *)
(* None / missing field), k = "nan" (float NaN) or k = "str" with text s.  *)
(* Document fields that no modelled operation reads (album_name,           *)
(* duration_ms, explicit, audio_features) are left out of the documents.   *)
(***************************************************************************)
EXTENDS Integers, Sequences, FiniteSets, Bags, TLC

VARIABLES
    running,      \* which script the operator is running: "none", "loader", "builder", "recommender"
    coll,         \* MongoDB collection tracks: documents in natural (insertion) order
    idx,          \* whether the unique index track_id_unique exists on the collection
    dataset,      \* 01: df, the rows read from dataset.csv by this run
    pos,          \* 01: i, the offset of the next batch in df
    response,     \* 01: the operator's answer to the drop prompt of the last run, "unasked" when not prompted
    report,       \* 01: (inserted, duplicates) returned by the last insert_documents_batch
    totals,       \* 01: total_inserted, total_duplicates
    graph,        \* Neo4j: bags of nodes and relationships
    cursor,       \* 02: documents the cursor has still to yield
    batch,        \* 02: rows collected and not yet written
    rerun,        \* 02: this run started on the store the previous completed run read
    snapshot,     \* 02: the graph as it was when this run started
    unchanged,    \* no write to the collection and no aborted run of 02 since its last completed run
    seed,         \* 04: artista_base
    similar,      \* 04: similar_artists
    songs,        \* 04: songs
    rpc,          \* 04: position in main
    message,      \* 04: what main printed as the outcome of the run
    outcomes,     \* for each printed outcome, the situations it has been printed in
    conns         \* connections the current (or the last) run opened and has not closed

vars == <<running, coll, idx, dataset, pos, response, report, totals, graph,
          cursor, batch, rerun, snapshot, unchanged, seed, similar, songs, rpc,
          message, outcomes, conns>>

loaderVars == <<dataset, pos, response, report, totals>>
builderVars == <<cursor, batch, rerun, snapshot>>
recVars == <<seed, similar, songs, rpc, message, outcomes>>

(***************************************************************************)
(* Bounds.  The batch sizes and result limits of the source (1000, 500, 20 *)
(* and 15) are scaled down so that full batches and capped results occur.  *)
(***************************************************************************)
MaxRows == 3

LOAD_BATCH_SIZE == 2

BATCH_SIZE == 2

PEER_LIMIT == 2

SONG_LIMIT == 2

(***************************************************************************)
(* Values and text                                                         *)
(***************************************************************************)
None == [k |-> "none", s |-> <<>>]

NaN == [k |-> "nan", s |-> <<>>]

Str(t) == [k |-> "str", s |-> t]

IsSpace(c) == c = " "

\* str(value)
PyStr(v) ==
    CASE v.k = "none" -> <<"N", "o", "n", "e">>
      [] v.k = "nan" -> <<"n", "a", "n">>
      [] OTHER -> v.s

RECURSIVE LStrip(_)
LStrip(t) == IF t /= <<>> /\ IsSpace(Head(t)) THEN LStrip(Tail(t)) ELSE t

RECURSIVE RStrip(_)
RStrip(t) ==
    IF t /= <<>> /\ IsSpace(t[Len(t)]) THEN RStrip(SubSeq(t, 1, Len(t) - 1)) ELSE t

\* str.strip()
Strip(t) == RStrip(LStrip(t))

\* str.split(',')
RECURSIVE Split(_)
Split(t) ==
    IF \E i \in 1..Len(t) : t[i] = ","
    THEN LET i == CHOOSE j \in 1..Len(t) : t[j] = "," /\ \A h \in 1..(j - 1) : t[h] /= ","
         IN  <<SubSeq(t, 1, i - 1)>> \o Split(SubSeq(t, i + 1, Len(t)))
    ELSE <<t>>

RECURSIVE MapStrip(_)
MapStrip(ts) ==
    IF ts = <<>> THEN <<>>
    ELSE LET a == Strip(Head(ts))
         IN  (IF a /= <<>> THEN <<Str(a)>> ELSE <<>>) \o MapStrip(Tail(ts))

(***************************************************************************)
(* 01_load_mongodb.py                                                      *)
(***************************************************************************)
transform_row_to_document(row) ==
    LET artists_str == PyStr(row.artists)
    IN  [track_id    |-> Str(PyStr(row.track_id)),
         track_name  |-> Str(PyStr(row.track_name)),
         artists     |-> Str(artists_str),
         artist_list |-> MapStrip(Split(artists_str)),
         track_genre |-> Str(PyStr(row.track_genre)),
         popularity  |-> row.popularity]

RECURSIVE Transform(_)
Transform(rows) ==
    IF rows = <<>> THEN <<>>
    ELSE <<transform_row_to_document(Head(rows))>> \o Transform(Tail(rows))

StoredIds(c) == {c[i].track_id : i \in 1..Len(c)}

\* collection.insert_many(documents, ordered=False): every document is tried; with
\* the unique index a document whose track_id is stored raises a write error and
\* the others are still inserted.  Result: the collection, nInserted, writeErrors.
RECURSIVE insert_many(_, _, _)
insert_many(c, unique, docs) ==
    IF docs = <<>> THEN [coll |-> c, nInserted |-> 0, writeErrors |-> 0]
    ELSE LET d == Head(docs)
             dup == unique /\ d.track_id \in StoredIds(c)
             rest == insert_many(IF dup THEN c ELSE Append(c, d), unique, Tail(docs))
         IN  [coll |-> rest.coll,
              nInserted |-> rest.nInserted + (IF dup THEN 0 ELSE 1),
              writeErrors |-> rest.writeErrors + (IF dup THEN 1 ELSE 0)]

insert_documents_batch(c, unique, docs) ==
    LET r == insert_many(c, unique, docs)
    IN  IF r.writeErrors = 0
        THEN [coll |-> r.coll, inserted |-> Len(docs), duplicates |-> 0]
        ELSE [coll |-> r.coll, inserted |-> r.nInserted, duplicates |-> r.writeErrors]

NoDuplicateIds(c) == \A i, j \in 1..Len(c) : i /= j => c[i].track_id /= c[j].track_id

\* create_indexes: the unique index is built unless stored documents share a
\* track_id (the failure is caught and printed); an existing index stays.
create_indexes(c, unique) == unique \/ NoDuplicateIds(c)

(***************************************************************************)
(* 02_load_neo4j.py                                                        *)
(*                                                                         *)
(* The graph is a record of bags, so that a node or a relationship created *)
(* twice is held twice.  A Song node is [track_id, track_name]; an Artist  *)
(* or Genre node is its name; a relationship is the pair of the keys of    *)
(* its end nodes.                                                          *)
(***************************************************************************)
EmptyGraph ==
    [song |-> EmptyBag, artist |-> EmptyBag, genre |-> EmptyBag,
     by_artist |-> EmptyBag, in_genre |-> EmptyBag, plays_genre |-> EmptyBag]

\* clean_value without the strip(): blank text is kept as a value.
clean_value_unstripped(value) ==
    IF value.k = "none" THEN None
    ELSE IF value.k = "nan" THEN None
    ELSE LET v == PyStr(value)
         IN  IF v /= <<>> THEN Str(v) ELSE None

\* value = str(value).strip(); return value if value else None
clean_value(value) ==
    IF value.k = "none" THEN None
    ELSE IF value.k = "nan" THEN None
    ELSE LET v == Strip(PyStr(value))
         IN  IF v /= <<>> THEN Str(v) ELSE None

\* "not x" for a value returned by clean_value
Falsy(v) == v = None

\* CREATE in the place of MERGE: the pattern is created whether or not it exists.
MergeAlwaysCreates(bag, key) == bag (+) SetToBag({key})

\* MERGE of a pattern identified by key: created only when nothing matches.
Merge(bag, key) == IF BagIn(key, bag) THEN bag ELSE bag (+) SetToBag({key})

\* MERGE (song:Song {track_id: row.track_id}) SET song.track_name = row.track_name
MergeSong(bag, track_id, track_name) ==
    LET merged == IF \E n \in BagToSet(bag) : n.track_id = track_id
                  THEN bag
                  ELSE bag (+) SetToBag({[track_id |-> track_id, track_name |-> None]})
        hit == {n \in BagToSet(merged) : n.track_id = track_id}
        matched == [n \in hit |-> merged[n]]
        others == [n \in BagToSet(merged) \ hit |-> merged[n]]
        node == [track_id |-> track_id, track_name |-> track_name]
    IN  others (+) [n \in {node} |-> BagCardinality(matched)]

\* The query without MERGE (song)-[:IN_GENRE]->(genre).
InsertRowWithoutInGenre(g, row) ==
    [song        |-> MergeSong(g.song, row.track_id, row.track_name),
     artist      |-> Merge(g.artist, row.artist),
     genre       |-> Merge(g.genre, row.genre),
     by_artist   |-> Merge(g.by_artist, <<row.track_id, row.artist>>),
     in_genre    |-> g.in_genre,
     plays_genre |-> Merge(g.plays_genre, <<row.artist, row.genre>>)]

\* The statements of the query applied to one row of $rows.
InsertRow(g, row) ==
    [song        |-> MergeSong(g.song, row.track_id, row.track_name),
     artist      |-> Merge(g.artist, row.artist),
     genre       |-> Merge(g.genre, row.genre),
     by_artist   |-> Merge(g.by_artist, <<row.track_id, row.artist>>),
     in_genre    |-> Merge(g.in_genre, <<row.track_id, row.genre>>),
     plays_genre |-> Merge(g.plays_genre, <<row.artist, row.genre>>)]

\* UNWIND $rows AS row ...: one transaction, the rows in order.
RECURSIVE insert_batch(_, _)
insert_batch(g, rows) ==
    IF rows = <<>> THEN g ELSE insert_batch(InsertRow(g, Head(rows)), Tail(rows))

\* The rows of a failed transaction kept as far as the query got: no rollback.
execute_write_without_rollback(g, rows, done) == insert_batch(g, SubSeq(rows, 1, done))

\* session.execute_write(insert_batch, batch): the query runs in one transaction,
\* committed when it has processed every row; done is the number of rows it had
\* processed when it stopped, and a query that stops early is rolled back.
execute_write(g, rows, done) == IF done = Len(rows) THEN insert_batch(g, rows) ELSE g

\* for artist in artist_list: one row per artist that clean_value keeps
RECURSIVE FanOut(_, _, _, _)
FanOut(track_id, track_name, genre, artist_list) ==
    IF artist_list = <<>> THEN <<>>
    ELSE LET artist == clean_value(Head(artist_list))
         IN  (IF Falsy(artist) THEN <<>>
              ELSE <<[track_id |-> track_id.s, track_name |-> track_name,
                      artist |-> artist.s, genre |-> genre.s]>>)
             \o FanOut(track_id, track_name, genre, Tail(artist_list))

\* The rows one document adds to the batch (none when it is skipped).
DocRows(doc) ==
    LET track_id == clean_value(doc.track_id)
        track_name == clean_value(doc.track_name)
        genre == clean_value(doc.track_genre)
    IN  IF Falsy(track_id) \/ Falsy(genre) THEN <<>>
        ELSE IF doc.artist_list = <<>> THEN <<>>
        ELSE FanOut(track_id, track_name, genre, doc.artist_list)

\* The body of "for doc in cursor": the rows are appended and the batch is
\* written once it holds BATCH_SIZE rows.  A skipped document jumps over the
\* length test ("continue").
ScanDoc(g, b, doc) ==
    LET track_id == clean_value(doc.track_id)
        genre == clean_value(doc.track_genre)
        skipped == Falsy(track_id) \/ Falsy(genre) \/ doc.artist_list = <<>>
        b1 == b \o DocRows(doc)
    IN  IF skipped THEN [graph |-> g, batch |-> b]
        ELSE IF Len(b1) >= BATCH_SIZE
             THEN [graph |-> execute_write(g, b1, Len(b1)), batch |-> <<>>]
             ELSE [graph |-> g, batch |-> b1]

\* main without the final batch: what the loop left unwritten is dropped.
FinalBatchDropped(g, b) == g

\* "if batch:" after the loop
FinalBatch(g, b) == IF b /= <<>> THEN execute_write(g, b, Len(b)) ELSE g

\* The rows the next step of the run submits with execute_write, given the batch
\* and the documents still to come (none when the step writes nothing).
Submitted(b, docs) ==
    IF docs = <<>> THEN b
    ELSE LET doc == Head(docs)
             skipped == \/ Falsy(clean_value(doc.track_id))
                        \/ Falsy(clean_value(doc.track_genre))
                        \/ doc.artist_list = <<>>
             b1 == b \o DocRows(doc)
         IN  IF ~skipped /\ Len(b1) >= BATCH_SIZE THEN b1 ELSE <<>>

\* A whole run of main over the documents docs, from graph g.
RECURSIVE RunBuilder(_, _, _)
RunBuilder(g, b, docs) ==
    IF docs = <<>> THEN FinalBatch(g, b)
    ELSE LET r == ScanDoc(g, b, Head(docs))
         IN  RunBuilder(r.graph, r.batch, Tail(docs))

(***************************************************************************)
(* Inputs of the pipeline: the rows dataset.csv may hold.  A cell is a     *)
(* value as pandas reads it: text, or NaN for an empty cell.               *)
(***************************************************************************)
Row(track_id, track_name, artists, track_genre, popularity) ==
    [track_id |-> track_id, track_name |-> track_name, artists |-> artists,
     track_genre |-> track_genre, popularity |-> popularity]

RowPool ==
    { Row(Str(<<"1">>), Str(<<"x">>), Str(<<"A">>), Str(<<"p">>), 2),
      Row(Str(<<"1">>), Str(<<"y">>), Str(<<"B">>), Str(<<"r">>), 1),
      Row(Str(<<"2">>), Str(<<"x">>), Str(<<"A", ",", " ", "B">>), Str(<<"p">>), 1),
      Row(Str(<<" ">>), NaN, Str(<<",", " ">>), Str(<<"r">>), 0) }

SeqsUpTo(S, n) == UNION {[1..m -> S] : m \in 0..n}

Datasets == SeqsUpTo(RowPool, MaxRows)

\* input(...): what the operator may type at the drop prompt ("" is a bare Enter)
Responses == {"yes", "YES", "no", ""}

\* str.lower() on the answers above
Lower(r) == IF r = "YES" THEN "yes" ELSE r

\* A prompt that takes every answer but "no" as consent.
ConfirmedUnlessNo(answer) == Lower(answer) /= "no"

\* response.lower() == 'yes'
Confirmed(answer) == Lower(answer) = "yes"

Min(a, b) == IF a < b THEN a ELSE b

NoReport == [inserted |-> 0, duplicates |-> 0]

(***************************************************************************)
(* Initial state: nothing loaded, no script running.                       *)
(***************************************************************************)
Idle ==
    /\ running = "none"
    /\ dataset = <<>> /\ pos = 0 /\ response = "unasked"
    /\ report = NoReport /\ totals = NoReport
    /\ cursor = <<>> /\ batch = <<>> /\ rerun = FALSE /\ unchanged = FALSE
    /\ seed = <<>> /\ similar = <<>> /\ songs = <<>> /\ rpc = "idle"
    /\ message = "NONE"
    /\ outcomes = [m \in {"NO_SIMILAR", "NO_SONGS", "SONGS"} |-> {}]
    /\ conns = {}

Init ==
    /\ Idle
    /\ coll = <<>> /\ idx = FALSE
    /\ graph = EmptyGraph /\ snapshot = EmptyGraph

(***************************************************************************)
(* 01_load_mongodb.py main                                                 *)
(***************************************************************************)
\* main up to the insert loop: connect, load_dataset, count_documents and, when
\* the collection holds documents, the prompt.  One action per branch.
\* The collection is empty: no prompt.
LoadStart ==
    /\ running = "none"
    /\ Len(coll) = 0
    /\ \E d \in Datasets : dataset' = d
    /\ running' = "loader"
    /\ pos' = 0 /\ response' = "unasked"
    /\ report' = NoReport /\ totals' = NoReport
    /\ conns' = {"mongo"}
    /\ UNCHANGED <<coll, idx, unchanged, graph, builderVars, recVars>>

\* The operator answers yes: collection.drop(), which removes the indexes too.
LoadDrop ==
    /\ running = "none"
    /\ Len(coll) > 0
    /\ \E d \in Datasets : dataset' = d
    /\ \E answer \in Responses : Confirmed(answer) /\ response' = answer
    /\ coll' = <<>> /\ idx' = FALSE
    /\ unchanged' = FALSE
    /\ running' = "loader"
    /\ pos' = 0
    /\ report' = NoReport /\ totals' = NoReport
    /\ conns' = {"mongo"}
    /\ UNCHANGED <<graph, builderVars, recVars>>

\* Any other answer: create_indexes, client.close(), return.
LoadSkip ==
    /\ running = "none"
    /\ Len(coll) > 0
    /\ \E answer \in Responses : ~Confirmed(answer) /\ response' = answer
    /\ idx' = create_indexes(coll, idx)
    /\ conns' = {"mongo"} \ {"mongo"}
    /\ UNCHANGED <<running, coll, dataset, pos, report, totals, unchanged,
                   graph, builderVars, recVars>>

\* One pass of "for i in range(0, len(df), BATCH_SIZE)".
LoadBatch ==
    /\ running = "loader"
    /\ pos < Len(dataset)
    /\ LET batch_df == SubSeq(dataset, pos + 1, Min(pos + LOAD_BATCH_SIZE, Len(dataset)))
           r == insert_documents_batch(coll, idx, Transform(batch_df))
       IN  /\ coll' = r.coll
           /\ report' = [inserted |-> r.inserted, duplicates |-> r.duplicates]
           /\ totals' = [inserted |-> totals.inserted + r.inserted,
                         duplicates |-> totals.duplicates + r.duplicates]
           /\ unchanged' = (unchanged /\ r.coll = coll)
    /\ pos' = pos + LOAD_BATCH_SIZE
    /\ UNCHANGED <<running, idx, dataset, response, graph, builderVars, recVars, conns>>

\* After the loop: create_indexes, the statistics, client.close().
LoadFinish ==
    /\ running = "loader"
    /\ pos >= Len(dataset)
    /\ idx' = create_indexes(coll, idx)
    /\ running' = "none"
    /\ dataset' = <<>> /\ pos' = 0 /\ response' = "unasked"
    /\ report' = NoReport /\ totals' = NoReport
    /\ conns' = conns \ {"mongo"}
    /\ UNCHANGED <<coll, unchanged, graph, builderVars, recVars>>

(***************************************************************************)
(* 02_load_neo4j.py main                                                   *)
(***************************************************************************)
\* connect_mongo, connect_neo4j, collection.find.  The scripts are run one at a
\* time, so the cursor yields the documents stored at this point, in natural order.
\* connect_mongo creates a MongoClient and returns only the database.
BuildStart ==
    /\ running = "none"
    /\ running' = "builder"
    /\ cursor' = coll
    /\ batch' = <<>>
    /\ rerun' = unchanged
    /\ snapshot' = graph
    /\ conns' = {"mongo", "neo4j"}
    /\ response' = "unasked"
    /\ UNCHANGED <<coll, idx, dataset, pos, report, totals, graph, unchanged, recVars>>

\* One pass of "for doc in cursor".
BuildDoc ==
    /\ running = "builder"
    /\ cursor /= <<>>
    /\ LET r == ScanDoc(graph, batch, Head(cursor))
       IN  graph' = r.graph /\ batch' = r.batch
    /\ cursor' = Tail(cursor)
    /\ UNCHANGED <<running, coll, idx, loaderVars, rerun, snapshot, unchanged, recVars, conns>>

\* The final batch and driver.close().
BuildFinal ==
    /\ running = "builder"
    /\ cursor = <<>>
    /\ graph' = FinalBatch(graph, batch)
    /\ batch' = <<>>
    /\ running' = "none"
    /\ unchanged' = TRUE
    /\ rerun' = FALSE /\ snapshot' = EmptyGraph
    /\ conns' = conns \ {"neo4j"}
    /\ UNCHANGED <<coll, idx, loaderVars, cursor, recVars>>

\* session.execute_write raises (a store error that is not retried): the
\* transaction is rolled back, nothing in main catches the exception and the
\* script ends there, before driver.close().
BuildFail ==
    /\ running = "builder"
    /\ LET rows == Submitted(batch, cursor)
       IN  /\ rows /= <<>>
           /\ \E done \in 0..(Len(rows) - 1) : graph' = execute_write(graph, rows, done)
    /\ running' = "none"
    /\ cursor' = <<>> /\ batch' = <<>>
    /\ rerun' = FALSE /\ snapshot' = EmptyGraph
    /\ unchanged' = FALSE
    /\ UNCHANGED <<coll, idx, loaderVars, recVars, conns>>

Next ==
    \/ LoadStart \/ LoadDrop \/ LoadSkip \/ LoadBatch \/ LoadFinish
    \/ BuildStart \/ BuildDoc \/ BuildFinal \/ BuildFail

Spec == Init /\ [][Next]_vars

(***************************************************************************)
(* The Graph Builder over any store contents: documents whose fields may   *)
(* be missing, NaN, empty or blank, as 02 reads them with doc.get.         *)
(***************************************************************************)
MaxDocs == 2

StoreIds == {Str(<<" ", "1">>), Str(<<"2">>), None, NaN, Str(<<" ">>), Str(<<>>)}

StoreGenres == {Str(<<"p">>), None, NaN, Str(<<" ">>)}

StoreLists == {<<>>, <<Str(<<"A">>), Str(<<" ">>)>>}

StoreDocs ==
    {[track_id |-> t, track_name |-> Str(<<"x">>), artists |-> Str(<<"A">>),
      artist_list |-> l, track_genre |-> g, popularity |-> 0] :
        t \in StoreIds, g \in StoreGenres, l \in StoreLists}

InitStore ==
    /\ Idle
    /\ coll \in SeqsUpTo(StoreDocs, MaxDocs) /\ idx = FALSE
    /\ graph = EmptyGraph /\ snapshot = EmptyGraph

NextBuild == BuildStart \/ BuildDoc \/ BuildFinal \/ BuildFail

SpecStore == InitStore /\ [][NextBuild]_vars

(***************************************************************************)
(* 04_cross_data.py                                                        *)
(***************************************************************************)
Range(f) == {f[i] : i \in DOMAIN f}

\* ORDER BY key DESC LIMIT k over the items S, key giving each item's sort key:
\* every listing the store may return.  The order among equal keys is the store's choice, so each listing
\* is the first k places of some arrangement of S by non-increasing key.
OrderByDescLimit(S, key, k) ==
    LET n == Min(k, Cardinality(S))
    IN  {f \in [1..n -> S] :
            /\ \A i, j \in 1..n : i < j => f[i] /= f[j] /\ key[f[i]] >= key[f[j]]
            /\ \A x \in S \ Range(f) : \A i \in 1..n : key[f[i]] >= key[x]}

\* The two MATCH clauses without "WHERE other <> a".
MatchSharedWithSeed(g, artist_name) ==
    LET plays == {e \in BagToSet(g.plays_genre) : BagIn(e[1], g.artist) /\ BagIn(e[2], g.genre)}
        ofSeed == {e \in plays : e[1] = artist_name}
    IN  {e \in plays : \E a \in ofSeed : a[2] = e[2]}

\* MATCH (a:Artist {name: $artist})-[:PLAYS_GENRE]->(g:Genre)
\* MATCH (other:Artist)-[:PLAYS_GENRE]->(g) WHERE other <> a
\* The matched pairs (other, g.name).
MatchShared(g, artist_name) ==
    LET plays == {e \in BagToSet(g.plays_genre) : BagIn(e[1], g.artist) /\ BagIn(e[2], g.genre)}
        ofSeed == {e \in plays : e[1] = artist_name}
    IN  {e \in plays : e[1] /= artist_name /\ \E a \in ofSeed : a[2] = e[2]}

\* WITH other, COLLECT(DISTINCT g.name) AS shared_genres
\* RETURN other.name, shared_genres, SIZE(shared_genres)
PeerRecords(g, artist_name) ==
    LET rows == MatchShared(g, artist_name)
    IN  {[artist |-> other,
          genres |-> {r[2] : r \in {r \in rows : r[1] = other}},
          matches |-> Cardinality({r[2] : r \in {r \in rows : r[1] = other}})] :
            other \in {r[1] : r \in rows}}

\* LIMIT without ORDER BY: any PEER_LIMIT of the peers, in any order.
get_similar_artists_unordered(g, artist_name) ==
    LET S == PeerRecords(g, artist_name)
        n == Min(PEER_LIMIT, Cardinality(S))
    IN  {f \in [1..n -> S] : \A i, j \in 1..n : i < j => f[i] /= f[j]}

\* The lists get_similar_artists may return (ORDER BY matches DESC LIMIT 20).
get_similar_artists(g, artist_name) ==
    LET records == PeerRecords(g, artist_name)
    IN  OrderByDescLimit(records, [r \in records |-> r.matches], PEER_LIMIT)

\* {"$match": {"artists": {"$in": artists_list}}}: the positions of the matching documents
MatchArtists(c, artists_list) ==
    {i \in 1..Len(c) : c[i].artists.k = "str" /\ c[i].artists.s \in Range(artists_list)}

\* "$project"
Project(doc) ==
    [track_name |-> doc.track_name, artists |-> doc.artists,
     popularity |-> doc.popularity, track_genre |-> doc.track_genre]

\* "$sort" with popularity 1: the least popular first.
get_top_songs_ascending(c, artists_list) ==
    LET matched == MatchArtists(c, artists_list)
    IN  {[j \in DOMAIN f |-> Project(c[f[j]])] :
            f \in OrderByDescLimit(matched, [i \in matched |-> 0 - c[i].popularity], SONG_LIMIT)}

\* The lists get_top_songs_for_artists may return ($sort popularity -1, $limit 15).
get_top_songs_for_artists(c, artists_list) ==
    LET matched == MatchArtists(c, artists_list)
    IN  {[j \in DOMAIN f |-> Project(c[f[j]])] :
            f \in OrderByDescLimit(matched, [i \in matched |-> c[i].popularity], SONG_LIMIT)}

\* artists_only = [item["artist"] for item in similar_artists]
ArtistsOnly(similar_artists) == [i \in DOMAIN similar_artists |-> similar_artists[i].artist]

\* main without the early return.
NoSimilarIgnored(similar_artists) == FALSE

\* "if not similar_artists:"
NoSimilar(similar_artists) == similar_artists = <<>>

\* "if not songs:"
SongsMessage(found) == IF found = <<>> THEN "NO_SONGS" ELSE "SONGS"

(***************************************************************************)
(* The situation a recommendation run is in, read off the two stores.      *)
(***************************************************************************)
SeedKnown == BagIn(seed, graph.artist)

SharesGenre(a, b) ==
    \E gn \in BagToSet(graph.genre) :
        BagIn(<<a, gn>>, graph.plays_genre) /\ BagIn(<<b, gn>>, graph.plays_genre)

TruePeers == {o \in BagToSet(graph.artist) : o /= seed /\ SharesGenre(seed, o)}

Situation(found_artists) ==
    IF ~SeedKnown THEN "unknown_seed"
    ELSE IF TruePeers = {} THEN "no_peers"
    ELSE IF \A i \in 1..Len(coll) :
              \A j \in 1..Len(found_artists) : coll[i].artists /= Str(found_artists[j].artist)
         THEN "no_tracks"
         ELSE "tracks"

(***************************************************************************)
(* 04_cross_data.py main                                                   *)
(***************************************************************************)
\* input(...).strip(): what the operator may type
RecInputs == {<<" ", "A">>, <<"B">>, <<"E">>, <<"Z">>}

\* connect_neo4j, connect_mongodb, the prompt
RecStart ==
    /\ running = "none"
    /\ running' = "recommender"
    /\ \E typed \in RecInputs : seed' = Strip(typed)
    /\ rpc' = "similar"
    /\ similar' = <<>> /\ songs' = <<>> /\ message' = "NONE"
    /\ conns' = {"neo4j", "mongo"}
    /\ UNCHANGED <<coll, idx, loaderVars, graph, builderVars, unchanged, outcomes>>

\* get_similar_artists and the early return
RecSimilar ==
    /\ running = "recommender" /\ rpc = "similar"
    /\ \E found \in get_similar_artists(graph, seed) :
         IF NoSimilar(found)
         THEN /\ message' = "NO_SIMILAR"
              /\ outcomes' = [outcomes EXCEPT !["NO_SIMILAR"] = @ \cup {Situation(found)}]
              /\ running' = "none" /\ rpc' = "idle"
              /\ seed' = <<>> /\ similar' = <<>>
         ELSE /\ similar' = found
              /\ rpc' = "songs"
              /\ UNCHANGED <<message, outcomes, running, seed>>
    /\ UNCHANGED <<coll, idx, loaderVars, graph, builderVars, unchanged, songs, conns>>

\* get_top_songs_for_artists and the listing of the songs
RecSongs ==
    /\ running = "recommender" /\ rpc = "songs"
    /\ \E found \in get_top_songs_for_artists(coll, ArtistsOnly(similar)) :
         /\ songs' = found
         /\ message' = SongsMessage(found)
         /\ outcomes' = [outcomes EXCEPT ![SongsMessage(found)] = @ \cup {Situation(similar)}]
    /\ rpc' = "close"
    /\ UNCHANGED <<running, coll, idx, loaderVars, graph, builderVars, unchanged, seed, similar,
                   conns>>

\* mongo_client.close(); neo.close()
RecClose ==
    /\ running = "recommender" /\ rpc = "close"
    /\ running' = "none" /\ rpc' = "idle"
    /\ seed' = <<>> /\ similar' = <<>> /\ songs' = <<>>
    /\ conns' = (conns \ {"mongo"}) \ {"neo4j"}
    /\ UNCHANGED <<coll, idx, loaderVars, graph, builderVars, unchanged, message, outcomes>>

\* The rows behind the stores the recommender is run on.
RecRows ==
    << Row(Str(<<"1">>), Str(<<"x">>), Str(<<"A">>), Str(<<"p">>), 2),
       Row(Str(<<"2">>), Str(<<"x">>), Str(<<"A">>), Str(<<"r">>), 1),
       Row(Str(<<"3">>), Str(<<"x">>), Str(<<"B">>), Str(<<"r">>), 2),
       Row(Str(<<"4">>), Str(<<"x">>), Str(<<"B">>), Str(<<"j">>), 0),
       Row(Str(<<"5">>), Str(<<"x">>), Str(<<"C">>), Str(<<"p">>), 1),
       Row(Str(<<"6">>), Str(<<"x">>), Str(<<"D">>), Str(<<"p">>), 1),
       Row(Str(<<"7">>), Str(<<"x">>), Str(<<"A", ",", "E">>), Str(<<"f">>), 0),
       Row(Str(<<"8">>), Str(<<"x">>), Str(<<"B">>), Str(<<"p">>), 2) >>

\* The rows of RecRows at the positions in keep, in order.
RECURSIVE Pick(_, _)
Pick(rows, keep) ==
    IF rows = <<>> THEN <<>>
    ELSE (IF Len(rows) \in keep THEN Pick(SubSeq(rows, 1, Len(rows) - 1), keep) \o <<rows[Len(rows)]>>
          ELSE Pick(SubSeq(rows, 1, Len(rows) - 1), keep))

\* Both stores as 01 and 02 leave them after loading a selection of rows.
InitRec ==
    /\ Idle
    /\ \E keep \in SUBSET (1..Len(RecRows)) :
         LET loaded == insert_documents_batch(<<>>, FALSE, Transform(Pick(RecRows, keep))).coll
         IN  /\ coll = loaded
             /\ idx = create_indexes(loaded, FALSE)
             /\ graph = RunBuilder(EmptyGraph, <<>>, loaded)
    /\ snapshot = EmptyGraph

NextRec == RecStart \/ RecSimilar \/ RecSongs \/ RecClose

SpecRec == InitRec /\ [][NextRec]_vars

(***************************************************************************)
(* Properties                                                              *)
(***************************************************************************)
\* Every node and every relationship of the graph is held once, and no two Song
\* nodes have the same track_id.
IsSimple(g) ==
    /\ \A f \in {"song", "artist", "genre", "by_artist", "in_genre", "plays_genre"} :
          \A x \in BagToSet(g[f]) : CopiesIn(x, g[f]) = 1
    /\ \A m, n \in BagToSet(g.song) : m.track_id = n.track_id => m = n

\* The same nodes (by key) and the same relationships.
SameNodesAndEdges(g, h) ==
    /\ {n.track_id : n \in BagToSet(g.song)} = {n.track_id : n \in BagToSet(h.song)}
    /\ BagCardinality(g.song) = BagCardinality(h.song)
    /\ g.artist = h.artist /\ g.genre = h.genre
    /\ g.by_artist = h.by_artist /\ g.in_genre = h.in_genre
    /\ g.plays_genre = h.plays_genre

\* The step ends a run of the Graph Builder normally: it reached driver.close().
Completes == running = "builder" /\ running' = "none" /\ "neo4j" \notin conns'

\* C1: a run of the Graph Builder that starts on the store the previous completed
\* run read adds nothing: after each of its steps the graph has the nodes and the
\* relationships the previous run left, none of them twice, and when the run
\* completes the graph, track names included, is the graph the previous run left.
C1_Idempotent ==
    [][(running = "builder" /\ rerun) =>
         /\ SameNodesAndEdges(graph', snapshot)
         /\ IsSimple(graph')
         /\ (Completes => graph' = snapshot)]_vars

\* A second run over an unchanged store has read every document and is about to
\* write its final batch into a graph with several songs and relationships.
C1_Witness ==
    /\ running = "builder" /\ rerun
    /\ cursor = <<>> /\ batch /= <<>>
    /\ BagCardinality(graph.song) >= 2
    /\ BagCardinality(graph.by_artist) >= 3

\* C2: every Song node has at least one BY_ARTIST relationship and exactly one
\* IN_GENRE relationship.
C2_SongEdges ==
    \A n \in BagToSet(graph.song) :
        /\ \E e \in BagToSet(graph.by_artist) : e[1] = n.track_id
        /\ BagCardinality([e \in {e \in BagToSet(graph.in_genre) : e[1] = n.track_id}
                             |-> graph.in_genre[e]]) = 1

\* C3: for every Artist-PLAYS_GENRE->Genre relationship some Song is BY_ARTIST that
\* artist and IN_GENRE that genre.
C3_InducedEdge ==
    \A e \in BagToSet(graph.plays_genre) :
        \E n \in BagToSet(graph.song) :
            /\ BagIn(<<n.track_id, e[1]>>, graph.by_artist)
            /\ BagIn(<<n.track_id, e[2]>>, graph.in_genre)

\* Batches have been committed and the graph holds several PLAYS_GENRE
\* relationships, while the run is still going on.
C3_Witness ==
    /\ running = "builder" /\ cursor /= <<>>
    /\ BagCardinality(graph.plays_genre) >= 3

\* C4: no two documents of the tracks collection share a track_id.
C4_TrackIdUnique ==
    \A i, j \in 1..Len(coll) : i < j => coll[i].track_id /= coll[j].track_id

\* The documents of docs whose track_id is neither stored in c nor carried by an
\* earlier document of docs.
NewPositions(c, docs) ==
    {i \in 1..Len(docs) :
        /\ \A h \in 1..Len(c) : c[h].track_id /= docs[i].track_id
        /\ \A h \in 1..(i - 1) : docs[h].track_id /= docs[i].track_id}

\* C5: for every batch submitted, inserted is the number of its documents whose
\* track_id was not yet stored, duplicates the number of the others, the new
\* documents are stored, and the loader goes on.
C5_BatchCounts ==
    [][(running = "loader" /\ pos < Len(dataset)) =>
         LET docs == Transform(SubSeq(dataset, pos + 1,
                                      Min(pos + LOAD_BATCH_SIZE, Len(dataset))))
             new == NewPositions(coll, docs)
         IN  /\ report'.inserted = Cardinality(new)
             /\ report'.duplicates = Len(docs) - Cardinality(new)
             /\ \A i \in new : \E h \in 1..Len(coll') : coll'[h] = docs[i]
             /\ running' = "loader"]_vars

\* A field the Graph Builder must treat as absent: None, NaN, or text that is
\* empty or made of blanks only.
Absent(v) == v.k \in {"none", "nan"} \/ \A i \in 1..Len(v.s) : v.s[i] = " "

Unfit(doc) == Absent(doc.track_id) \/ Absent(doc.track_genre) \/ doc.artist_list = <<>>

\* C6: a document whose track_id or track_genre is absent or whose artist_list is
\* empty adds no row to the batch and changes nothing in the graph.
C6_SkipsUnfit ==
    [][(running = "builder" /\ cursor /= <<>> /\ Unfit(Head(cursor))) =>
         (batch' = batch /\ graph' = graph)]_vars

\* A run has ended over a store that holds a document with a track_id and artists
\* but no genre, and the graph holds the song of another document.
C6_Witness ==
    /\ running = "none" /\ unchanged
    /\ BagCardinality(graph.song) >= 1
    /\ \E i \in 1..Len(coll) :
          /\ ~Absent(coll[i].track_id) /\ coll[i].artist_list /= <<>>
          /\ Absent(coll[i].track_genre)

SharedGenres(a, b) ==
    {gn \in BagToSet(graph.genre) :
        BagIn(<<a, gn>>, graph.plays_genre) /\ BagIn(<<b, gn>>, graph.plays_genre)}

Listed == {similar[i].artist : i \in 1..Len(similar)}

\* C7: the seed artist is not in the list get_similar_artists returned.
C7_SeedExcluded == \A i \in 1..Len(similar) : similar[i].artist /= seed

\* Peers were returned for a seed with two genres, each of them played by some
\* other artist too.
C7_Witness ==
    /\ rpc = "songs" /\ similar /= <<>>
    /\ Cardinality({gn \in BagToSet(graph.genre) : BagIn(<<seed, gn>>, graph.plays_genre)}) >= 2
    /\ \A gn \in BagToSet(graph.genre) :
          BagIn(<<seed, gn>>, graph.plays_genre) =>
             \E o \in BagToSet(graph.artist) : o /= seed /\ BagIn(<<o, gn>>, graph.plays_genre)

\* C8: the list returned holds at most PEER_LIMIT entries, each a different artist
\* sharing a genre with the seed, with its shared genres and their number, in
\* non-increasing order of that number; it holds every such artist when they are
\* at most PEER_LIMIT, and an artist left out shares no more genres than any
\* artist listed.
C8_PeerOrder ==
    rpc \in {"songs", "close"} =>
        /\ Len(similar) <= PEER_LIMIT
        /\ \A i, j \in 1..Len(similar) :
              i < j => similar[i].matches >= similar[j].matches
                       /\ similar[i].artist /= similar[j].artist
        /\ \A i \in 1..Len(similar) :
              /\ similar[i].artist \in TruePeers
              /\ similar[i].genres = SharedGenres(seed, similar[i].artist)
              /\ similar[i].matches = Cardinality(SharedGenres(seed, similar[i].artist))
        /\ Cardinality(TruePeers) <= PEER_LIMIT => Listed = TruePeers
        /\ \A o \in TruePeers \ Listed :
              \A i \in 1..Len(similar) :
                  similar[i].matches >= Cardinality(SharedGenres(seed, o))

\* Seed A plays p and r, B plays r and j, C plays p: B and C are both returned,
\* each with one match.
C8_Witness ==
    /\ rpc = "songs" /\ seed = <<"A">>
    /\ BagToSet(graph.plays_genre) =
          { <<<<"A">>, <<"p">>>>, <<<<"A">>, <<"r">>>>, <<<<"B">>, <<"r">>>>,
            <<<<"B">>, <<"j">>>>, <<<<"C">>, <<"p">>>> }
    /\ Listed = {<<"B">>, <<"C">>}
    /\ \A i \in 1..Len(similar) : similar[i].matches = 1

\* The documents whose artists field is one of the names of the peers listed.
MatchingDocs == {i \in 1..Len(coll) : \E a \in Listed : coll[i].artists = Str(a)}

Shown(doc) ==
    [track_name |-> doc.track_name, artists |-> doc.artists,
     popularity |-> doc.popularity, track_genre |-> doc.track_genre]

\* A matching document is left out when fewer records show it than there are
\* matching documents shown like it.
LeftOut(i) ==
    Cardinality({j \in 1..Len(songs) : songs[j] = Shown(coll[i])})
        < Cardinality({h \in MatchingDocs : Shown(coll[h]) = Shown(coll[i])})

\* C9: the records returned are at most SONG_LIMIT, in non-increasing order of
\* popularity, each the four display fields of a stored document whose artists
\* field is one of the names given, and no matching document left out is more
\* popular than a record returned.
C9_TopSongs ==
    rpc = "close" =>
        /\ Len(songs) <= SONG_LIMIT
        /\ \A i, j \in 1..Len(songs) : i < j => songs[i].popularity >= songs[j].popularity
        /\ \A j \in 1..Len(songs) :
              /\ DOMAIN songs[j] = {"track_name", "artists", "popularity", "track_genre"}
              /\ \E i \in MatchingDocs : songs[j] = Shown(coll[i])
        /\ \A i \in MatchingDocs :
              LeftOut(i) => \A j \in 1..Len(songs) : songs[j].popularity >= coll[i].popularity

\* More documents match than the limit lets through, and the records returned
\* differ in popularity.
C9_Witness ==
    /\ rpc = "close"
    /\ Cardinality(MatchingDocs) > SONG_LIMIT
    /\ Len(songs) = SONG_LIMIT
    /\ songs[1].popularity > songs[Len(songs)].popularity
    /\ \E i \in MatchingDocs : LeftOut(i)

\* C10 as claimed: a run that ends without recommendations tells which of the
\* three situations it is in, so no outcome is printed in two situations.
C10_ThreeReasons == \A m \in DOMAIN outcomes : Cardinality(outcomes[m]) <= 1

\* C10 as amended: "no similar artists" is printed exactly when the seed is unknown
\* or has no peers, "no songs" exactly when peers were found and no stored track
\* matches them, and the songs are listed otherwise.
C10_TwoReasons ==
    /\ outcomes["NO_SIMILAR"] \subseteq {"unknown_seed", "no_peers"}
    /\ outcomes["NO_SONGS"] \subseteq {"no_tracks"}
    /\ outcomes["SONGS"] \subseteq {"tracks"}

\* Over the same stores the recommender has been run with an unknown seed, with a
\* seed without peers and with a seed whose peers have no tracks.
C10_Witness ==
    /\ outcomes["NO_SIMILAR"] = {"unknown_seed", "no_peers"}
    /\ outcomes["NO_SONGS"] = {"no_tracks"}

\* coll grew by appended documents only: every document stored before is still
\* stored, unchanged and in its place.
OnlyAppended(before, after) ==
    Len(after) >= Len(before) /\ SubSeq(after, 1, Len(before)) = before

\* C11: a step that removes or changes a stored document is a step of the Batch
\* Loader in which the operator was asked and answered yes; and when the Batch
\* Loader finds documents and the answer is anything else, the step leaves the
\* collection as it was, runs only the index creation, and ends the run before
\* the insert loop.
C11_DropGate ==
    [][/\ ~OnlyAppended(coll, coll') =>
             running = "none" /\ Len(coll) > 0 /\ Lower(response') = "yes"
       /\ (running = "none" /\ running' /= "builder" /\ Len(coll) > 0
             /\ Lower(response') /= "yes") =>
             /\ response' /= "unasked"
             /\ coll' = coll
             /\ idx' = (idx \/ NoDuplicateIds(coll))
             /\ running' = "none"
             /\ dataset' = <<>> /\ pos' = 0 /\ totals' = NoReport
             /\ graph' = graph]_vars

\* The operator declined over a collection holding several documents, two of them
\* with the same track_id, and the run has ended with the documents in place.
C11_Witness ==
    /\ running = "none" /\ response \in {"no", ""}
    /\ Len(coll) >= 2 /\ ~NoDuplicateIds(coll)
    /\ dataset = <<>>

\* C12: when no script is running, every connection the last run opened has been
\* closed.
C12_AllClosed == running = "none" => conns = {}

\* The batches a run submits, in order, when it starts with b collected and has
\* docs still to read.
RECURSIVE Batches(_, _)
Batches(b, docs) ==
    IF docs = <<>> THEN (IF b /= <<>> THEN <<b>> ELSE <<>>)
    ELSE LET w == Submitted(b, docs)
             kept == IF w /= <<>> THEN <<>> ELSE b \o DocRows(Head(docs))
         IN  (IF w /= <<>> THEN <<w>> ELSE <<>>) \o Batches(kept, Tail(docs))

\* The batches bs applied whole, one after the other.
RECURSIVE ApplyBatches(_, _)
ApplyBatches(g, bs) ==
    IF bs = <<>> THEN g ELSE ApplyBatches(insert_batch(g, Head(bs)), Tail(bs))

\* C13: after every step of a Graph Builder run, a failed write and the end of
\* an aborted run included, the graph is the graph the run started from with
\* the first n of the run's batches applied whole, for some n; a step changes
\* the graph by the whole batch it submits or not at all, and a step that
\* aborts the run leaves the graph as the committed batches left it.
C13_BatchAtomic ==
    [][running = "builder" =>
         /\ \E n \in 0..Len(Batches(<<>>, coll)) :
               graph' = ApplyBatches(snapshot, SubSeq(Batches(<<>>, coll), 1, n))
         /\ graph' \in {graph, insert_batch(graph, Submitted(batch, cursor))}
         /\ (running' = "none" /\ ~Completes) => graph' = graph]_vars

\* A run was aborted by its second batch failing: the graph holds the first
\* batch, whole, and nothing of the second, which would have changed it.
C13_Witness ==
    /\ running = "none" /\ "neo4j" \in conns
    /\ Len(Batches(<<>>, coll)) = 2
    /\ graph = insert_batch(EmptyGraph, Batches(<<>>, coll)[1])
    /\ graph /= ApplyBatches(EmptyGraph, Batches(<<>>, coll))
    /\ Len(Batches(<<>>, coll)[2]) >= 2

\* The arrangements of 1..n.
Arrangements(n) == {f \in [1..n -> 1..n] : \A i, j \in 1..n : i /= j => f[i] /= f[j]}

\* The sequence q in the order f.
Reordered(q, f) == [i \in 1..Len(q) |-> q[f[i]]]

\* C14: when a run of the Graph Builder completes, the graph it leaves, Song
\* names included, is the graph its batches give applied in any order, and with
\* the rows of any one batch in any order.
C14_OrderIndependent ==
    [][Completes =>
         LET bs == Batches(<<>>, coll)
         IN  /\ \A f \in Arrangements(Len(bs)) :
                   ApplyBatches(snapshot, Reordered(bs, f)) = graph'
             /\ \A i \in 1..Len(bs) : \A f \in Arrangements(Len(bs[i])) :
                   ApplyBatches(snapshot, [bs EXCEPT ![i] = Reordered(bs[i], f)]) = graph']_vars

\* One flattened row per artist of the document's artist_list, in order.
ExpectedRows(doc) ==
    [j \in 1..Len(doc.artist_list) |->
        [track_id |-> Strip(doc.track_id.s), track_name |-> clean_value(doc.track_name),
         artist |-> Strip(doc.artist_list[j].s), genre |-> Strip(doc.track_genre.s)]]

\* The graph holds the Song, the Artist and the Genre of the row and the three
\* relationships between them.
InGraph(g, row) ==
    /\ \E n \in BagToSet(g.song) : n.track_id = row.track_id
    /\ BagIn(row.artist, g.artist)
    /\ BagIn(row.genre, g.genre)
    /\ BagIn(<<row.track_id, row.artist>>, g.by_artist)
    /\ BagIn(<<row.track_id, row.genre>>, g.in_genre)
    /\ BagIn(<<row.artist, row.genre>>, g.plays_genre)

\* C15: reading a retained document adds exactly its rows, one per artist, to
\* the batch, which is kept for a later write or written whole at once; and when
\* the run completes, the graph holds the Song, the Artist, the Genre and the
\* three relationships of every row of every retained document, the rows of a
\* last batch shorter than BATCH_SIZE included.
C15_AllRowsWritten ==
    [][/\ (running = "builder" /\ running' = "builder" /\ cursor /= <<>>
             /\ ~Unfit(Head(cursor))) =>
             LET rows == batch \o ExpectedRows(Head(cursor))
             IN  IF Len(rows) >= BATCH_SIZE
                 THEN batch' = <<>> /\ graph' = insert_batch(graph, rows)
                 ELSE batch' = rows /\ graph' = graph
       /\ Completes =>
             \A i \in 1..Len(coll) :
                 ~Unfit(coll[i]) =>
                     \A j \in 1..Len(coll[i].artist_list) :
                         InGraph(graph', ExpectedRows(coll[i])[j])]_vars

\* A run has completed over a store whose rows made a full batch and a last
\* batch shorter than BATCH_SIZE, one document having two artists, and the graph
\* holds the rows of both batches.
C15_Witness ==
    /\ running = "none" /\ unchanged /\ "neo4j" \notin conns
    /\ Len(Batches(<<>>, coll)) = 2
    /\ Len(Batches(<<>>, coll)[2]) < BATCH_SIZE
    /\ \E i \in 1..Len(coll) : ~Unfit(coll[i]) /\ Len(coll[i].artist_list) = 2
    /\ \A i \in 1..2 : \A j \in 1..Len(Batches(<<>>, coll)[i]) :
          InGraph(graph, Batches(<<>>, coll)[i][j])
    /\ ~InGraph(insert_batch(EmptyGraph, Batches(<<>>, coll)[1]), Batches(<<>>, coll)[2][1])

=============================================================================
